---- MODULE Spec2Model ----
(***************************************************************************)
(* A model of the sfzen document tree (sfzen/sfz_elems.py), its opcode     *)
(* ordering (sfzen/sort.py) and the opcode replacement performed by the    *)
(* resampler (sfzen/resampler.py).                                         *)
(*                                                                         *)
(* Python objects live in a heap: heap[i] is the header object with        *)
(* identity i, a record of its fields.  heap[SFZ] is the document.  A      *)
(* method  self.m(args)  is the operator  m(H, self, args)  over a heap H. *)
(* A call that can raise returns a record [exc, ret]; exc = "" means the   *)
(* call returned ret.                                                      *)
(***************************************************************************)
EXTENDS Integers, Sequences, FiniteSets, TLC

VARIABLES heap,     \* the header objects: [kind, parent, opcodes, subheadings, opstrs]
          stack,    \* tree builder: the open headers, innermost last
          stream,   \* the sink written by write()
          call,     \* the last API call and what it returned
          input,    \* argument of opcode_sorted / name_sorted
          output    \* their result

vars == <<heap, stack, stream, call, input, output>>

\* ---------------------------------------------------------------- bounds
MaxHeaders == 3      \* header objects besides the document (API runs)
MaxBuildHeaders == 3 \* header nodes of a node sequence (builder runs)
MaxTrigHeaders == 2  \* header objects besides the document (trigger runs)
MaxLen == 4          \* length of a list handed to the sort functions
MaxValue == 2        \* largest opcode value a rescaling may produce
MaxRegionsHeaders == 4 \* header objects besides the document (regions runs)
MaxOpstrsHeaders == 2  \* header objects besides the document (opstrs runs)
MaxFragments == 3    \* pieces an opcode name is put together from

\* ------------------------------------------------------------- constants
None == 0            \* Python's None where a header reference is expected
SFZ == 1             \* identity of the document object

HeaderKinds == {"Global", "Master", "Group", "Region",
                "Control", "Effect", "Midi", "Curve"}

NoCall == [op |-> "", self |-> None, args |-> <<>>, exc |-> "", ret |-> ""]

\* the decimal numerals of 0..127: str(i) and int(s)
Numerals == <<
    "0", "1", "2", "3", "4", "5", "6", "7", "8", "9", "10", "11", "12",
    "13", "14", "15", "16", "17", "18", "19", "20", "21", "22", "23",
    "24", "25", "26", "27", "28", "29", "30", "31", "32", "33", "34",
    "35", "36", "37", "38", "39", "40", "41", "42", "43", "44", "45",
    "46", "47", "48", "49", "50", "51", "52", "53", "54", "55", "56",
    "57", "58", "59", "60", "61", "62", "63", "64", "65", "66", "67",
    "68", "69", "70", "71", "72", "73", "74", "75", "76", "77", "78",
    "79", "80", "81", "82", "83", "84", "85", "86", "87", "88", "89",
    "90", "91", "92", "93", "94", "95", "96", "97", "98", "99", "100",
    "101", "102", "103", "104", "105", "106", "107", "108", "109", "110",
    "111", "112", "113", "114", "115", "116", "117", "118", "119", "120",
    "121", "122", "123", "124", "125", "126", "127" >>

str(i) == Numerals[i + 1]

int(s) == (CHOOSE i \in 1..Len(Numerals) : Numerals[i] = s) - 1

\* round(n / d), Python's round: a tie goes to the even neighbour
round(n, d) ==
    LET q == n \div d
        r == n % d
    IN  IF 2 * r < d THEN q
        ELSE IF 2 * r > d THEN q + 1
        ELSE IF q % 2 = 0 THEN q ELSE q + 1

\* the opcodes measured in sample frames, rescaled with the sample rate
SAMPLE_UNIT_OPCODES == <<"offset", "end", "loop_start", "loop_end">>

\* ------------------------------------------------- Python dict semantics
\* A dict of opcodes is the sequence of its values in insertion order; the
\* key of an entry is its name.
dict_has(d, name) == \E i \in 1..Len(d) : d[i].name = name

dict_get(d, name) == d[CHOOSE i \in 1..Len(d) : d[i].name = name]

dict_keys(d) == {d[i].name : i \in 1..Len(d)}

\* d[op.name] = op : an existing key keeps its position
dict_set(d, op) ==
    IF dict_has(d, op.name)
    THEN [i \in 1..Len(d) |-> IF d[i].name = op.name THEN op ELSE d[i]]
    ELSE Append(d, op)

\* dict(a, **b)
RECURSIVE dict_update(_, _)
dict_update(a, b) ==
    IF b = <<>> THEN a ELSE dict_update(dict_set(a, Head(b)), Tail(b))

\* ------------------------------------------------------------ the objects
\* Opcode.__init__ : a new opcode has no parent
Opcode(name, value) == [name |-> name, parsed_value |-> value, parent |-> None]

\* _Header.__init__ : a new header has no parent, no opcodes, no subheadings;
\* opstrs is what the cached property of that name has kept, <<>> before
\* its first read
Header(k) == [kind |-> k, parent |-> None, opcodes |-> <<>>, subheadings |-> <<>>,
              opstrs |-> <<>>]

Headers(H) == 1..Len(H)

append_opcode(H, self, opcode) ==
    [H EXCEPT ![self].opcodes = dict_set(@, [opcode EXCEPT !.parent = self])]

append_subheader(H, self, subheading) ==
    [H EXCEPT ![self].subheadings = Append(@, subheading),
              ![subheading].parent = self]

\* _Header.opcode : <<>> is None, <<op>> is the Opcode op
RECURSIVE opcode(_, _, _)
opcode_nearest_last(H, self, name) ==
    IF H[self].parent # None /\ opcode(H, H[self].parent, name) # <<>>
    THEN opcode(H, H[self].parent, name)
    ELSE IF dict_has(H[self].opcodes, name)
         THEN <<dict_get(H[self].opcodes, name)>>
         ELSE <<>>

opcode(H, self, name) ==
    IF dict_has(H[self].opcodes, name)
    THEN <<dict_get(H[self].opcodes, name)>>
    ELSE IF H[self].parent = None
         THEN <<>>
         ELSE opcode(H, H[self].parent, name)

\* inherited_opcodes, dispatched on the class of self
RECURSIVE inherited_opcodes(_, _)

\* the document is the top of every chain: it has only its own opcodes
SFZ_inherited_opcodes(H, self) == [exc |-> "", ret |-> H[self].opcodes]

Header_inherited_opcodes_parent_wins(H, self) ==
    IF H[self].parent = None
    THEN [exc |-> "AttributeError", ret |-> <<>>]
    ELSE LET up == inherited_opcodes(H, H[self].parent)
         IN  IF up.exc # "" THEN up
             ELSE [exc |-> "", ret |-> dict_update(H[self].opcodes, up.ret)]

\* _Header.inherited_opcodes : None has no attribute inherited_opcodes
Header_inherited_opcodes(H, self) ==
    IF H[self].parent = None
    THEN [exc |-> "AttributeError", ret |-> <<>>]
    ELSE LET up == inherited_opcodes(H, H[self].parent)
         IN  IF up.exc # "" THEN up
             ELSE [exc |-> "", ret |-> dict_update(up.ret, H[self].opcodes)]

inherited_opcodes(H, self) ==
    IF H[self].kind = "SFZ"
    THEN SFZ_inherited_opcodes(H, self)
    ELSE Header_inherited_opcodes(H, self)

\* may_contain of each class; header is the class of the candidate
Header_may_contain(header) == FALSE

Global_may_contain(header) == TRUE

Master_may_contain(header) == header \notin {"Global", "Master"}

Group_may_contain(header) == header \notin {"Global", "Master", "Group"}

Region_may_contain_region(header) == header \notin {"Global", "Master", "Group"}

Region_may_contain(header) == header \notin {"Global", "Master", "Group", "Region"}

\* the top level accepts every header
SFZ_may_contain(header) == TRUE

\* self.may_contain(header), dispatched on the class of self; Control,
\* Effect, Midi and Curve inherit _Header.may_contain
may_contain(self, header) ==
    CASE self = "SFZ" -> SFZ_may_contain(header)
      [] self = "Global" -> Global_may_contain(header)
      [] self = "Master" -> Master_may_contain(header)
      [] self = "Group" -> Group_may_contain(header)
      [] self = "Region" -> Region_may_contain(header)
      [] OTHER -> Header_may_contain(header)

\* Opcode.value of an integer-typed opcode
value(op) == int(op.parsed_value)

\* a criterion that is not given
NoneArg == -1

\* Region.is_triggerd_by
is_triggerd_by_key_in_range(H, self, lokey, hikey, lovel, hivel) ==
    IF lokey = NoneArg /\ hikey = NoneArg /\ lovel = NoneArg /\ hivel = NoneArg
    THEN [exc |-> "Exception", ret |-> ""]
    ELSE LET ops == inherited_opcodes(H, self)
         IN  IF ops.exc # "" THEN [exc |-> ops.exc, ret |-> ""]
             ELSE IF dict_has(ops.ret, "lokey") /\ lokey # NoneArg
                     /\ value(dict_get(ops.ret, "lokey")) > lokey
             THEN [exc |-> "", ret |-> "False"]
             ELSE IF dict_has(ops.ret, "hikey") /\ lokey # NoneArg
                     /\ value(dict_get(ops.ret, "hikey")) < lokey
             THEN [exc |-> "", ret |-> "False"]
             ELSE IF dict_has(ops.ret, "hikey") /\ hikey # NoneArg
                     /\ value(dict_get(ops.ret, "hikey")) < hikey
             THEN [exc |-> "", ret |-> "False"]
             ELSE IF dict_has(ops.ret, "lovel") /\ lovel # NoneArg
                     /\ value(dict_get(ops.ret, "lovel")) > lovel
             THEN [exc |-> "", ret |-> "False"]
             ELSE IF dict_has(ops.ret, "hivel") /\ hivel # NoneArg
                     /\ value(dict_get(ops.ret, "hivel")) < hivel
             THEN [exc |-> "", ret |-> "False"]
             ELSE [exc |-> "", ret |-> "True"]

is_triggerd_by(H, self, lokey, hikey, lovel, hivel) ==
    IF lokey = NoneArg /\ hikey = NoneArg /\ lovel = NoneArg /\ hivel = NoneArg
    THEN [exc |-> "Exception", ret |-> ""]
    ELSE LET ops == inherited_opcodes(H, self)
         IN  IF ops.exc # "" THEN [exc |-> ops.exc, ret |-> ""]
             ELSE IF dict_has(ops.ret, "lokey") /\ lokey # NoneArg
                     /\ value(dict_get(ops.ret, "lokey")) > lokey
             THEN [exc |-> "", ret |-> "False"]
             ELSE IF dict_has(ops.ret, "hikey") /\ hikey # NoneArg
                     /\ value(dict_get(ops.ret, "hikey")) < hikey
             THEN [exc |-> "", ret |-> "False"]
             ELSE IF dict_has(ops.ret, "lovel") /\ lovel # NoneArg
                     /\ value(dict_get(ops.ret, "lovel")) > lovel
             THEN [exc |-> "", ret |-> "False"]
             ELSE IF dict_has(ops.ret, "hivel") /\ hivel # NoneArg
                     /\ value(dict_get(ops.ret, "hivel")) < hivel
             THEN [exc |-> "", ret |-> "False"]
             ELSE [exc |-> "", ret |-> "True"]

\* SampleResampler.resample, the rescaling loop; self is sample.parent, the
\* header that holds the sample.  i counts the names already visited.  The
\* new Opcode is built from the name and the adjusted value; the call also
\* passes None for meta and a basedir, which the Opcode class of
\* sfz_elems.py does not declare.  The file conversion that follows the
\* loop touches no header.
RECURSIVE rescale(_, _, _, _, _)
rescale_at_definer(H, self, sample_rate, target_rate, i) ==
    IF i > Len(SAMPLE_UNIT_OPCODES) THEN H
    ELSE LET opcode_name == SAMPLE_UNIT_OPCODES[i]
             found == opcode(H, self, opcode_name)
         IN  IF found = <<>> THEN rescale(H, self, sample_rate, target_rate, i + 1)
             ELSE LET adjusted_value == round(value(found[1]) * target_rate, sample_rate)
                  IN  IF adjusted_value # value(found[1])
                      THEN rescale(
                             [H EXCEPT ![found[1].parent].opcodes =
                                dict_set(@, Opcode(opcode_name, str(adjusted_value)))],
                             self, sample_rate, target_rate, i + 1)
                      ELSE rescale(H, self, sample_rate, target_rate, i + 1)

rescale(H, self, sample_rate, target_rate, i) ==
    IF i > Len(SAMPLE_UNIT_OPCODES) THEN H
    ELSE LET opcode_name == SAMPLE_UNIT_OPCODES[i]
             found == opcode(H, self, opcode_name)
         IN  IF found = <<>> THEN rescale(H, self, sample_rate, target_rate, i + 1)
             ELSE LET adjusted_value == round(value(found[1]) * target_rate, sample_rate)
                  IN  IF adjusted_value # value(found[1])
                      THEN rescale(
                             [H EXCEPT ![self].opcodes =
                                dict_set(@, Opcode(opcode_name, str(adjusted_value)))],
                             self, sample_rate, target_rate, i + 1)
                      ELSE rescale(H, self, sample_rate, target_rate, i + 1)

resample(H, self, sample_rate, target_rate) ==
    IF sample_rate # target_rate
    THEN rescale(H, self, sample_rate, target_rate, 1)
    ELSE H

\* the largest value resample would write: the runs keep it below MaxValue
LargestRescaled(H, self, sample_rate, target_rate) ==
    LET S == {round(value(opcode(H, self, SAMPLE_UNIT_OPCODES[i])[1]) * target_rate,
                    sample_rate) :
                i \in {j \in 1..Len(SAMPLE_UNIT_OPCODES) :
                          opcode(H, self, SAMPLE_UNIT_OPCODES[j]) # <<>>}}
    IN  IF S = {} THEN 0 ELSE CHOOSE m \in S : \A x \in S : x <= m

\* ------------------------------------------------------------- sort.py
OPCODE_SORT_ORDER == <<
    "lokey", "hikey", "lovel", "hivel", "lochan", "hichan", "sample",
    "pitch_keycenter", "loop_mode", "loop_start", "loop_end", "offset",
    "group", "off_by", "ampeg_attack", "ampeg_decay", "ampeg_delay",
    "ampeg_hold", "ampeg_release", "ampeg_sustain", "amplfo_delay",
    "amplfo_depth", "amplfo_freq", "volume", "pan", "cutoff", "resonance",
    "transpose", "tune", "pitch_keytrack", "pitch_veltrack",
    "fileg_delay", "fileg_attack", "fileg_decay", "fileg_depth",
    "fileg_sustain", "fileg_release", "fileg_hold", "fil_type",
    "fil_veltrack", "fillfo_delay", "fillfo_depth", "fillfo_freq",
    "effect1", "effect2", "pitcheg_delay", "pitcheg_attack",
    "pitcheg_decay", "pitcheg_depth", "pitcheg_sustain",
    "pitcheg_release", "pitcheg_hold", "pitchlfo_delay", "pitchlfo_depth",
    "pitchlfo_freq" >>

\* the key of the two sort functions: the index in the table, else 1000
sort_key_unknown_first(name) ==
    IF \E i \in 1..Len(OPCODE_SORT_ORDER) : OPCODE_SORT_ORDER[i] = name
    THEN (CHOOSE i \in 1..Len(OPCODE_SORT_ORDER) :
             /\ OPCODE_SORT_ORDER[i] = name
             /\ \A j \in 1..(i - 1) : OPCODE_SORT_ORDER[j] # name) - 1
    ELSE -1

sort_key(name) ==
    IF \E i \in 1..Len(OPCODE_SORT_ORDER) : OPCODE_SORT_ORDER[i] = name
    THEN (CHOOSE i \in 1..Len(OPCODE_SORT_ORDER) :
             /\ OPCODE_SORT_ORDER[i] = name
             /\ \A j \in 1..(i - 1) : OPCODE_SORT_ORDER[j] # name) - 1
    ELSE 1000

\* x put into a list sorted by keys: behind every element whose key is not
\* larger, so that equal keys keep their order
insert(items, keys, x, k) ==
    LET n == Cardinality({i \in 1..Len(items) : keys[i] <= k})
    IN  [items |-> SubSeq(items, 1, n) \o <<x>> \o SubSeq(items, n + 1, Len(items)),
         keys |-> SubSeq(keys, 1, n) \o <<k>> \o SubSeq(keys, n + 1, Len(keys))]

\* sorted(items, key = ...) : Python's sort is stable
RECURSIVE sorted_from(_, _, _)
sorted_from(done, items, keys) ==
    IF items = <<>> THEN done.items
    ELSE sorted_from(insert(done.items, done.keys, Head(items), Head(keys)),
                     Tail(items), Tail(keys))

sorted(items, keys) == sorted_from([items |-> <<>>, keys |-> <<>>], items, keys)

opcode_sorted(opcodes) ==
    sorted(opcodes, [i \in 1..Len(opcodes) |-> sort_key(opcodes[i].name)])

name_sorted(opcodes) ==
    sorted(opcodes, [i \in 1..Len(opcodes) |-> sort_key(opcodes[i])])

\* ----------------------------------------------------------- regions()
\* _Header.regions is a generator.  Its state is the frames of the nested
\* generators, the outermost first: a frame is at the i-th subheading of
\* self, either before the isinstance test of that subheading ("test") or
\* before delegating to its regions() ("from").
Frame(self) == [self |-> self, i |-> 1, at |-> "test"]

\* Resumes the generator: runs it to its next yield.  yield is the header
\* yielded, or None when the outermost generator returned (StopIteration).
RECURSIVE regions_next(_, _)
regions_next_any_header(H, frames) ==
    IF frames = <<>> THEN [frames |-> <<>>, yield |-> None]
    ELSE LET n   == Len(frames)
             f   == frames[n]
             sub == H[f.self].subheadings[f.i]
         IN  IF f.i > Len(H[f.self].subheadings)
             THEN regions_next(H, SubSeq(frames, 1, n - 1))
             ELSE IF f.at = "test"
             THEN [frames |-> [frames EXCEPT ![n].at = "from"], yield |-> sub]
             ELSE regions_next(H, Append([frames EXCEPT ![n] = [self |-> f.self, i |-> f.i + 1, at |-> "test"]],
                                         Frame(sub)))

regions_next(H, frames) ==
    IF frames = <<>> THEN [frames |-> <<>>, yield |-> None]
    ELSE LET n   == Len(frames)
             f   == frames[n]
             sub == H[f.self].subheadings[f.i]
         IN  IF f.i > Len(H[f.self].subheadings)
             THEN regions_next(H, SubSeq(frames, 1, n - 1))
             ELSE IF f.at = "test"
             THEN IF H[sub].kind = "Region"
                  THEN [frames |-> [frames EXCEPT ![n].at = "from"], yield |-> sub]
                  ELSE regions_next(H, [frames EXCEPT ![n].at = "from"])
             ELSE regions_next(H, Append([frames EXCEPT ![n] = [self |-> f.self, i |-> f.i + 1, at |-> "test"]],
                                         Frame(sub)))

\* ------------------------------------------------------- Region.opstrs
\* Opcode.__str__: '%s=%s' of the name and the parsed value
Opcode_str(op) == <<op.name, "=", op.parsed_value>>

\* Region.opstrs, a cached_property: the first read computes the set from
\* the Region's own opcodes and keeps it in the instance; later reads
\* return what was kept.  heap is the heap after the read.
Region_opstrs(H, self) ==
    LET opstrs == IF H[self].opstrs # <<>>
                  THEN H[self].opstrs[1]
                  ELSE {Opcode_str(H[self].opcodes[i]) : i \in 1..Len(H[self].opcodes)}
    IN  [heap |-> [H EXCEPT ![self].opstrs = <<opstrs>>], ret |-> opstrs]

\* Region.uses_opstr
Region_uses_opstr(H, self, opstr) ==
    [heap |-> Region_opstrs(H, self).heap, ret |-> opstr \in Region_opstrs(H, self).ret]

\* ------------------------------------------------ opcode name resolution
\* A Python str is the sequence of its characters, so that the regular
\* expressions of _get_opcode_def act on it as they do in the code.
Digits == {"0", "1", "2", "3", "4", "5", "6", "7", "8", "9"}

\* a Python value that is a dict, a str or None
NoDict == [name |-> <<>>, value |-> [type |-> <<>>]]

PyDict(d) == [type |-> "dict", dict |-> d, str |-> <<>>]

PyStr(s) == [type |-> "str", dict |-> NoDict, str |-> s]

PyNone == [type |-> "NoneType", dict |-> NoDict, str |-> <<>>]

\* OPCODES of sfzen/opcodes.py: a record per canonical name, as
\* utils/compile_syntax.py writes them
OPCODES ==
    [k \in {<<"a", "m", "p", "_", "v", "e", "l", "c", "u", "r", "v", "e", "_", "N">>,
            <<"e", "q", "N", "_", "g", "a", "i", "n">>,
            <<"e", "q", "N", "_", "g", "a", "i", "n", "_", "o", "n", "c", "c", "X">>,
            <<"c", "u", "t", "o", "f", "f">>,
            <<"c", "u", "t", "o", "f", "f", "_", "o", "n", "c", "c", "N">>,
            <<"c", "u", "t", "o", "f", "f", "_", "c", "c", "N">>} |->
        [name |-> k, value |-> [type |-> <<"f", "l", "o", "a", "t">>]]]

\* s holds p at position i
has_at(s, i, p) == i + Len(p) - 1 <= Len(s) /\ SubSeq(s, i, i + Len(p) - 1) = p

\* opstr in s, for two strings
contains(s, p) == \E i \in 1..(Len(s) + 1) : has_at(s, i, p)

\* \d+ from position i: the position after the longest run of digits
RECURSIVE digits_end(_, _)
digits_end(s, i) == IF i <= Len(s) /\ s[i] \in Digits THEN digits_end(s, i + 1) ELSE i

\* a pattern  p \d+ q  matched at position i: the position after the match,
\* or 0 when there is no match at i
match_at(s, i, p, q) ==
    IF has_at(s, i, p)
    THEN LET j == digits_end(s, i + Len(p))
         IN  IF j > i + Len(p) /\ has_at(s, j, q) THEN j + Len(q) ELSE 0
    ELSE 0

re_match(p, q, s) == match_at(s, 1, p, q) # 0

re_search(p, q, s) == \E i \in 1..Len(s) : match_at(s, i, p, q) # 0

\* re.sub from position i on: every match, left to right, becomes repl
RECURSIVE re_sub_from(_, _, _, _, _)
re_sub_drop(p, q, repl, s, i) ==
    IF i > Len(s) THEN <<>>
    ELSE IF match_at(s, i, p, q) # 0
         THEN re_sub_from(p, q, repl, s, match_at(s, i, p, q))
         ELSE <<s[i]>> \o re_sub_from(p, q, repl, s, i + 1)

re_sub_from(p, q, repl, s, i) ==
    IF i > Len(s) THEN <<>>
    ELSE IF match_at(s, i, p, q) # 0
         THEN repl \o re_sub_from(p, q, repl, s, match_at(s, i, p, q))
         ELSE <<s[i]>> \o re_sub_from(p, q, repl, s, i + 1)

re_sub(p, q, repl, s) == re_sub_from(p, q, repl, s, 1)

\* the two dicts of regex and replacement, in the order they are iterated
CC_X == << [regex |-> <<"_", "o", "n", "c", "c">>, repl |-> <<"_", "o", "n", "c", "c", "X">>],
           [regex |-> <<"_", "c", "c">>, repl |-> <<"_", "c", "c", "X">>],
           [regex |-> <<"c", "c">>, repl |-> <<"c", "c", "X">>] >>

CC_N == << [regex |-> <<"_", "o", "n", "c", "c">>, repl |-> <<"_", "o", "n", "c", "c", "N">>],
           [regex |-> <<"_", "c", "c">>, repl |-> <<"_", "c", "c", "N">>],
           [regex |-> <<"c", "c">>, repl |-> <<"c", "c", "N">>] >>

cc_sub(item, name) == re_sub(item.regex, <<>>, item.repl, name)

\* the first item from i on whose substitution changes name and is a key of
\* OPCODES (the loop of the eq branch), or 0
RECURSIVE first_in_OPCODES(_, _, _)
first_in_OPCODES(items, name, i) ==
    IF i > Len(items) THEN 0
    ELSE IF cc_sub(items[i], name) # name /\ cc_sub(items[i], name) \in DOMAIN OPCODES
         THEN i
         ELSE first_in_OPCODES(items, name, i + 1)

\* the first item from i on whose substitution changes name (the last
\* loop), or 0
RECURSIVE first_changed(_, _, _)
first_changed(items, name, i) ==
    IF i > Len(items) THEN 0
    ELSE IF cc_sub(items[i], name) # name THEN i
         ELSE first_changed(items, name, i + 1)

\* Opcode._get_opcode_def.  ret is the value returned, calls the names the
\* function was called with (this call first), warnings what was logged.
RECURSIVE Opcode_get_opcode_def(_)
Opcode_get_opcode_def(name) ==
    LET eq   == re_search(<<"e", "q">>, <<"_">>, name)
        nam  == IF eq THEN re_sub(<<"e", "q">>, <<"_">>, <<"e", "q", "N", "_">>, name) ELSE name
        cc   == re_search(<<"c", "c">>, <<>>, nam)
        x    == first_in_OPCODES(CC_X, nam, 1)
        n    == first_changed(CC_N, nam, 1)
        sub  == cc_sub(CC_N[n], nam)
        here == [ret |-> PyNone, calls |-> <<name>>, warnings |-> <<>>]
    IN  IF re_match(<<"a", "m", "p", "_", "v", "e", "l", "c", "u", "r", "v", "e", "_">>, <<>>, name)
        THEN [here EXCEPT !.ret = PyStr(<<"a", "m", "p", "_", "v", "e", "l", "c", "u", "r", "v", "e", "_", "N">>)]
        ELSE IF eq /\ nam \in DOMAIN OPCODES
        THEN [here EXCEPT !.ret = PyDict(OPCODES[nam])]
        ELSE IF eq /\ cc /\ x # 0
        THEN [here EXCEPT !.ret = PyDict(OPCODES[cc_sub(CC_X[x], nam)])]
        ELSE IF cc /\ n # 0
        THEN IF sub \in DOMAIN OPCODES
             THEN [here EXCEPT !.ret = PyDict(OPCODES[sub])]
             ELSE [Opcode_get_opcode_def(sub) EXCEPT !.calls = <<name>> \o @]
        ELSE [here EXCEPT !.warnings = <<<<"C", "o", "u", "l", "d", " ", "n", "o", "t", " ", "f", "i", "n", "d", " ", "o", "p", "c", "o", "d", "e", " ">> \o nam>>]

\* Opcode.definition
Opcode_definition(name) ==
    IF name \in DOMAIN OPCODES
    THEN [ret |-> PyDict(OPCODES[name]), calls |-> <<>>, warnings |-> <<>>]
    ELSE Opcode_get_opcode_def(name)

\* Opcode._def_value: 'value' not in a str is a test for a substring
Opcode_def_value(name, key) ==
    LET definition == Opcode_definition(name).ret
    IN  IF definition.type = "NoneType" THEN PyNone
        ELSE IF definition.type = "str"
        THEN IF ~contains(definition.str, <<"v", "a", "l", "u", "e">>)
             THEN PyNone
             ELSE [PyNone EXCEPT !.type = "TypeError"]
        ELSE PyStr(definition.dict.value[key])

\* ------------------------------------------------------ the tree builder
\* A node of the parser's output: a header of a class, or an opcode.
HeaderNode(k) == [node |-> "header", kind |-> k, name |-> "", value |-> ""]

OpcodeNode(n, v) == [node |-> "opcode", kind |-> "", name |-> n, value |-> v]

\* pop the open headers while the innermost rejects the incoming header
RECURSIVE pop_while_rejected(_, _, _)
pop_while_rejected(H, open, k) ==
    IF open = <<>> THEN open
    ELSE IF may_contain(H[open[Len(open)]].kind, k) THEN open
    ELSE pop_while_rejected(H, SubSeq(open, 1, Len(open) - 1), k)

\* one node consumed; B = [heap, stack, exc]
builder_step(B, nd) ==
    IF B.exc # "" THEN B
    ELSE IF nd.node = "header"
    THEN LET H1 == Append(B.heap, Header(nd.kind))
             new == Len(H1)
             open == pop_while_rejected(H1, B.stack, nd.kind)
             top == IF open = <<>> THEN SFZ ELSE open[Len(open)]
         IN  [heap |-> append_subheader(H1, top, new),
              stack |-> Append(open, new),
              exc |-> ""]
    ELSE IF B.stack = <<>>
         THEN [B EXCEPT !.exc = "StructureError"]
         ELSE [B EXCEPT !.heap = append_opcode(B.heap, B.stack[Len(B.stack)],
                                               Opcode(nd.name, nd.value))]

RECURSIVE build_from(_, _)
build_from(B, nodes) ==
    IF nodes = <<>> THEN B ELSE build_from(builder_step(B, Head(nodes)), Tail(nodes))

build(nodes) == build_from([heap |-> <<Header("SFZ")>>, stack |-> <<>>, exc |-> ""], nodes)

\* ----------------------------------------------------------- write
\* The sink holds lines; a line is the sequence of its tokens.
Tag(k) ==
    CASE k = "Global" -> "<global>"
      [] k = "Master" -> "<master>"
      [] k = "Group" -> "<group>"
      [] k = "Region" -> "<region>"
      [] k = "Control" -> "<control>"
      [] k = "Effect" -> "<effect>"
      [] k = "Midi" -> "<midi>"
      [] k = "Curve" -> "<curve>"

Tags == {Tag(k) : k \in HeaderKinds}

KindOfTag(t) == CHOOSE k \in HeaderKinds : Tag(k) = t

\* Opcode.write : name=value
Opcode_write(op) == <<op.name, "=", op.parsed_value>>

\* the class attributes of Curve; nothing assigns them
Curve_curve_index == "None"

Curve_points == <<>>

RECURSIVE write(_, _)
RECURSIVE write_all(_, _)
write_all(H, subs) ==
    IF subs = <<>> THEN <<>> ELSE write(H, Head(subs)) \o write_all(H, Tail(subs))

Header_write(H, self) ==
    << <<Tag(H[self].kind)>> >>
    \o (IF H[self].opcodes # <<>>
        THEN [i \in 1..Len(H[self].opcodes) |-> Opcode_write(H[self].opcodes[i])]
             \o << <<>> >>
        ELSE <<>>)
    \o write_all(H, H[self].subheadings)

Curve_write(H, self) ==
    << <<Tag(H[self].kind), "curve_index", "=", Curve_curve_index>> >>
    \o [i \in 1..Len(Curve_points) |-> Opcode_write(Curve_points[i])]

write(H, self) ==
    IF H[self].kind = "Curve" THEN Curve_write(H, self) ELSE Header_write(H, self)

\* the document writes its top-level headers in order
SFZ_write(H) == write_all(H, H[SFZ].subheadings)

\* the text of the sink read again: the tokens of all lines, a tag opening
\* a header and name = value giving an opcode
RECURSIVE tokens(_)
tokens(lines) == IF lines = <<>> THEN <<>> ELSE Head(lines) \o tokens(Tail(lines))

RECURSIVE parse(_)
parse(toks) ==
    IF toks = <<>> THEN <<>>
    ELSE IF Head(toks) \in Tags
    THEN <<HeaderNode(KindOfTag(Head(toks)))>> \o parse(Tail(toks))
    ELSE <<OpcodeNode(toks[1], toks[3])>> \o parse(SubSeq(toks, 4, Len(toks)))

\* ------------------------------------------------- paths, for the claims
\* the headers from self upward, self first
RECURSIVE PathUp(_, _)
PathUp(H, self) ==
    IF H[self].parent = None THEN <<self>>
    ELSE <<self>> \o PathUp(H, H[self].parent)

InPath(H, a, self) == \E i \in 1..Len(PathUp(H, self)) : PathUp(H, self)[i] = a

Defines(H, a, name) == \E i \in 1..Len(H[a].opcodes) : H[a].opcodes[i].name = name

\* the first header of the path of self that defines name, or None
Nearest(H, self, name) ==
    LET p == PathUp(H, self)
        D == {i \in 1..Len(p) : Defines(H, p[i], name)}
    IN  IF D = {} THEN None ELSE p[CHOOSE i \in D : \A j \in D : i <= j]

Attached(H, self) == PathUp(H, self)[Len(PathUp(H, self))] = SFZ

\* ------------------------------------------------------------ API runs
ApiKinds == {"Region"}
ApiNames == {"offset"}
ApiValues == {"1", "2"}
QueryNames == {"offset", "lokey"}
Rates == {22050, 44100}

Init ==
    /\ heap = <<Header("SFZ")>>
    /\ stack = <<>>
    /\ stream = <<>>
    /\ call = NoCall
    /\ input = <<>>
    /\ output = <<>>

\* a header is constructed once the one before it has been appended
NewHeader(k) ==
    /\ Len(heap) < MaxHeaders + 1
    /\ \A h \in Headers(heap) : h = SFZ \/ heap[h].parent # None
    /\ heap' = Append(heap, Header(k))
    /\ UNCHANGED <<stack, stream, call, input, output>>

\* a header is appended once, and never below itself
AppendSubheader(p, s) ==
    /\ s # SFZ
    /\ heap[s].parent = None
    /\ ~InPath(heap, s, p)
    /\ heap' = append_subheader(heap, p, s)
    /\ UNCHANGED <<stack, stream, call, input, output>>

AppendOpcode(h, n, v) ==
    /\ h # SFZ
    /\ heap' = append_opcode(heap, h, Opcode(n, v))
    /\ UNCHANGED <<stack, stream, call, input, output>>

Resample(h, sample_rate, target_rate) ==
    /\ h # SFZ
    /\ LargestRescaled(heap, h, sample_rate, target_rate) <= MaxValue
    /\ heap' = resample(heap, h, sample_rate, target_rate)
    /\ UNCHANGED <<stack, stream, call, input, output>>

Next ==
    \/ \E k \in ApiKinds : NewHeader(k)
    \/ \E p \in Headers(heap), s \in Headers(heap) : AppendSubheader(p, s)
    \/ \E h \in Headers(heap), n \in ApiNames, v \in ApiValues : AppendOpcode(h, n, v)
    \/ \E h \in Headers(heap), sr \in Rates, tr \in Rates : Resample(h, sr, tr)

Spec == Init /\ [][Next]_vars

\* ---------------------------------------------------------- builder runs
BuildNames == {"volume"}
BuildValues == {"1", "2"}

Builder == [heap |-> heap, stack |-> stack, exc |-> call.exc]

Consume(nd) ==
    /\ call.op # "write"
    /\ call.exc = ""
    /\ LET B == builder_step(Builder, nd)
       IN  /\ heap' = B.heap
           /\ stack' = B.stack
           /\ call' = [NoCall EXCEPT !.op = nd.node, !.exc = B.exc]
    /\ UNCHANGED <<stream, input, output>>

BuildHeader(k) ==
    /\ Len(heap) < MaxBuildHeaders + 1
    /\ Consume(HeaderNode(k))

BuildOpcode(n, v) == Consume(OpcodeNode(n, v))

Write ==
    /\ call.op # "write"
    /\ call.exc = ""
    /\ stream' = SFZ_write(heap)
    /\ call' = [NoCall EXCEPT !.op = "write"]
    /\ UNCHANGED <<heap, stack, input, output>>

NextBuild ==
    \/ \E k \in HeaderKinds : BuildHeader(k)
    \/ \E n \in BuildNames, v \in BuildValues : BuildOpcode(n, v)
    \/ Write

SpecBuild == Init /\ [][NextBuild]_vars

\* ---------------------------------------------------------- trigger runs
TrigKinds == {"Group", "Region"}
TrigNames == <<"lokey", "hikey", "lovel", "hivel">>
TrigValue(n) == IF n \in {"lokey", "lovel"} THEN "60" ELSE "64"
QueryLokey == {NoneArg, 58, 62, 70}
QueryHikey == {NoneArg, 58, 62, 70}
QueryLovel == {NoneArg, 58, 62}
QueryHivel == {NoneArg, 62, 70}

TrigIndex(n) == CHOOSE i \in 1..Len(TrigNames) : TrigNames[i] = n

TrigNewHeader(k) ==
    /\ Len(heap) < MaxTrigHeaders + 1
    /\ \A h \in Headers(heap) : h = SFZ \/ heap[h].parent # None
    /\ heap' = Append(heap, Header(k))
    /\ call' = NoCall
    /\ UNCHANGED <<stack, stream, input, output>>

TrigAppendSubheader(p, s) ==
    /\ s # SFZ
    /\ heap[s].parent = None
    /\ ~InPath(heap, s, p)
    /\ heap' = append_subheader(heap, p, s)
    /\ call' = NoCall
    /\ UNCHANGED <<stack, stream, input, output>>

\* the opcodes of a header arrive in the order of TrigNames
TrigAppendOpcode(h, i) ==
    /\ h # SFZ
    /\ \A j \in 1..Len(heap[h].opcodes) : TrigIndex(heap[h].opcodes[j].name) < i
    /\ heap' = append_opcode(heap, h, Opcode(TrigNames[i], TrigValue(TrigNames[i])))
    /\ call' = NoCall
    /\ UNCHANGED <<stack, stream, input, output>>

\* a query changes no object, so one query of each tree reaches every answer
IsTriggerdBy(r, lokey, hikey, lovel, hivel) ==
    /\ call = NoCall
    /\ heap[r].kind = "Region"
    /\ LET res == is_triggerd_by(heap, r, lokey, hikey, lovel, hivel)
       IN  call' = [op |-> "is_triggerd_by", self |-> r,
                    args |-> <<lokey, hikey, lovel, hivel>>,
                    exc |-> res.exc, ret |-> res.ret]
    /\ UNCHANGED <<heap, stack, stream, input, output>>

NextTrig ==
    \/ \E k \in TrigKinds : TrigNewHeader(k)
    \/ \E p \in Headers(heap), s \in Headers(heap) : TrigAppendSubheader(p, s)
    \/ \E h \in Headers(heap), i \in 1..Len(TrigNames) : TrigAppendOpcode(h, i)
    \/ \E r \in Headers(heap), lokey \in QueryLokey, hikey \in QueryHikey,
          lovel \in QueryLovel, hivel \in QueryHivel :
             IsTriggerdBy(r, lokey, hikey, lovel, hivel)

SpecTrig == Init /\ [][NextTrig]_vars

\* ------------------------------------------------------------- sort runs
SortOpcodes == {Opcode("volume", "1"), Opcode("lokey", "1"), Opcode("lokey", "2"),
                Opcode("hikey", "1"), Opcode("unknownop", "1"), Opcode("foo", "1")}

Lists(S, n) == UNION {[1..m -> S] : m \in 0..n}

NamesOf(opcodes) == [i \in 1..Len(opcodes) |-> opcodes[i].name]

InitSort ==
    /\ heap = <<Header("SFZ")>>
    /\ stack = <<>>
    /\ stream = <<>>
    /\ call = NoCall
    /\ input \in Lists(SortOpcodes, MaxLen)
    /\ output = <<>>

OpcodeSorted ==
    /\ call = NoCall
    /\ output' = opcode_sorted(input)
    /\ call' = [NoCall EXCEPT !.op = "opcode_sorted"]
    /\ UNCHANGED <<heap, stack, stream, input>>

\* the names of the opcodes are what name_sorted is given
NameSorted ==
    /\ call = NoCall
    /\ output' = name_sorted(NamesOf(input))
    /\ call' = [NoCall EXCEPT !.op = "name_sorted"]
    /\ UNCHANGED <<heap, stack, stream, input>>

NextSort == OpcodeSorted \/ NameSorted

SpecSort == InitSort /\ [][NextSort]_vars

\* ------------------------------------------------- name resolution runs
\* the pieces opcode names are put together from
Fragments == {<<"a", "m", "p", "_", "v", "e", "l", "c", "u", "r", "v", "e", "_">>,
              <<"e", "q", "3", "_">>,
              <<"e", "q">>,
              <<"g", "a", "i", "n">>,
              <<"c", "u", "t", "o", "f", "f">>,
              <<"_", "o", "n", "c", "c", "1">>,
              <<"_", "c", "c", "2">>,
              <<"c", "c", "3">>,
              <<"4">>,
              <<"_">>}

RECURSIVE Concat(_)
Concat(fs) == IF fs = <<>> THEN <<>> ELSE Head(fs) \o Concat(Tail(fs))

OpcodeNames == {Concat(fs) : fs \in Lists(Fragments, MaxFragments) \ {<<>>}}

\* an Opcode of some name has been constructed
InitDef ==
    /\ heap = <<Header("SFZ")>>
    /\ stack = <<>>
    /\ stream = <<>>
    /\ call = NoCall
    /\ input \in OpcodeNames
    /\ output = <<>>

Definition ==
    /\ call = NoCall
    /\ output' = Opcode_definition(input)
    /\ call' = [NoCall EXCEPT !.op = "definition"]
    /\ UNCHANGED <<heap, stack, stream, input>>

DefValue ==
    /\ call = NoCall
    /\ output' = [ret |-> Opcode_def_value(input, "type"), calls |-> <<>>, warnings |-> <<>>]
    /\ call' = [NoCall EXCEPT !.op = "_def_value"]
    /\ UNCHANGED <<heap, stack, stream, input>>

NextDef == Definition \/ DefValue

SpecDef == InitDef /\ [][NextDef]_vars

\* ---------------------------------------------------------- regions runs
RegionsKinds == {"Group", "Region"}

RegNewHeader(k) ==
    /\ call = NoCall
    /\ Len(heap) < MaxRegionsHeaders + 1
    /\ \A h \in Headers(heap) : h = SFZ \/ heap[h].parent # None
    /\ heap' = Append(heap, Header(k))
    /\ UNCHANGED <<stack, stream, call, input, output>>

RegAppendSubheader(p, s) ==
    /\ call = NoCall
    /\ s # SFZ
    /\ heap[s].parent = None
    /\ ~InPath(heap, s, p)
    /\ heap' = append_subheader(heap, p, s)
    /\ UNCHANGED <<stack, stream, call, input, output>>

\* h.regions() is called: a first time, or a second time once the first
\* traversal is exhausted; input keeps what the first traversal yielded
RegionsCall(h) ==
    /\ h # SFZ
    /\ \/ call = NoCall
       \/ call.op = "regions" /\ call.self = h /\ call.exc = "StopIteration" /\ call.args = <<1>>
    /\ stack' = <<Frame(h)>>
    /\ input' = output
    /\ output' = <<>>
    /\ call' = [NoCall EXCEPT !.op = "regions", !.self = h,
                              !.args = IF call = NoCall THEN <<1>> ELSE <<2>>]
    /\ UNCHANGED <<heap, stream>>

\* next() on the generator
RegionsNext ==
    /\ call.op = "regions"
    /\ call.exc = ""
    /\ LET r == regions_next(heap, stack)
       IN  /\ stack' = r.frames
           /\ output' = IF r.yield = None THEN output ELSE Append(output, r.yield)
           /\ call' = IF r.yield = None THEN [call EXCEPT !.exc = "StopIteration"] ELSE call
    /\ UNCHANGED <<heap, stream, input>>

NextRegions ==
    \/ \E k \in RegionsKinds : RegNewHeader(k)
    \/ \E p \in Headers(heap), s \in Headers(heap) : RegAppendSubheader(p, s)
    \/ \E h \in Headers(heap) : RegionsCall(h)
    \/ RegionsNext

SpecRegions == Init /\ [][NextRegions]_vars

\* ----------------------------------------------------------- opstrs runs
OpstrsKinds == {"Group", "Region"}
OpstrsNames == {"offset"}
OpstrsValues == {"1", "2"}
Opstrs == {<<n, "=", v>> : n \in OpstrsNames, v \in OpstrsValues}

OpNewHeader(k) ==
    /\ Len(heap) < MaxOpstrsHeaders + 1
    /\ \A h \in Headers(heap) : h = SFZ \/ heap[h].parent # None
    /\ heap' = Append(heap, Header(k))
    /\ call' = NoCall
    /\ UNCHANGED <<stack, stream, input, output>>

\* a header is appended once, below a header that may contain it
OpAppendSubheader(p, s) ==
    /\ s # SFZ
    /\ heap[s].parent = None
    /\ ~InPath(heap, s, p)
    /\ may_contain(heap[p].kind, heap[s].kind)
    /\ heap' = append_subheader(heap, p, s)
    /\ call' = NoCall
    /\ UNCHANGED <<stack, stream, input, output>>

OpAppendOpcode(h, n, v) ==
    /\ h # SFZ
    /\ heap' = append_opcode(heap, h, Opcode(n, v))
    /\ call' = NoCall
    /\ UNCHANGED <<stack, stream, input, output>>

OpResample(h, sample_rate, target_rate) ==
    /\ h # SFZ
    /\ LargestRescaled(heap, h, sample_rate, target_rate) <= MaxValue
    /\ heap' = resample(heap, h, sample_rate, target_rate)
    /\ call' = NoCall
    /\ UNCHANGED <<stack, stream, input, output>>

\* region.opstrs is read
ReadOpstrs(r) ==
    /\ heap[r].kind = "Region"
    /\ heap' = Region_opstrs(heap, r).heap
    /\ call' = [NoCall EXCEPT !.op = "opstrs", !.self = r, !.ret = Region_opstrs(heap, r).ret]
    /\ UNCHANGED <<stack, stream, input, output>>

UsesOpstr(r, opstr) ==
    /\ heap[r].kind = "Region"
    /\ heap' = Region_uses_opstr(heap, r, opstr).heap
    /\ call' = [NoCall EXCEPT !.op = "uses_opstr", !.self = r, !.args = <<opstr>>,
                              !.ret = Region_uses_opstr(heap, r, opstr).ret]
    /\ UNCHANGED <<stack, stream, input, output>>

NextOpstrs ==
    \/ \E k \in OpstrsKinds : OpNewHeader(k)
    \/ \E p \in Headers(heap), s \in Headers(heap) : OpAppendSubheader(p, s)
    \/ \E h \in Headers(heap), n \in OpstrsNames, v \in OpstrsValues : OpAppendOpcode(h, n, v)
    \/ \E h \in Headers(heap), sr \in Rates, tr \in Rates : OpResample(h, sr, tr)
    \/ \E r \in Headers(heap) : ReadOpstrs(r)
    \/ \E r \in Headers(heap), opstr \in Opstrs : UsesOpstr(r, opstr)

SpecOpstrs == Init /\ [][NextOpstrs]_vars

\* ------------------------------------------------------------------ C1
\* C1: H.opcode(N) is the Opcode stored under N at the nearest header on
\* the path from H upward (H included) that defines N, and None when no
\* header on that path defines N.
C1_OpcodeNearest ==
    \A h \in Headers(heap), n \in QueryNames :
        LET a == Nearest(heap, h, n)
        IN  IF a = None
            THEN opcode(heap, h, n) = <<>>
            ELSE opcode(heap, h, n) = <<dict_get(heap[a].opcodes, n)>>

\* a header inherits N from a strict ancestor while a farther one defines
\* another value, and another name is defined nowhere on the path
C1_Witness ==
    \E h \in Headers(heap) :
        /\ Len(PathUp(heap, h)) >= 4
        /\ Nearest(heap, h, "offset") = PathUp(heap, h)[2]
        /\ Defines(heap, PathUp(heap, h)[3], "offset")
        /\ dict_get(heap[PathUp(heap, h)[3]].opcodes, "offset").parsed_value
             # dict_get(heap[PathUp(heap, h)[2]].opcodes, "offset").parsed_value
        /\ Nearest(heap, h, "lokey") = None

\* ------------------------------------------------------------------ C2
\* C2: for a header whose parent chain ends at the document,
\* inherited_opcodes(H) contains N exactly when some header on the path
\* from H to the root defines N, and maps N to the Opcode H.opcode(N)
\* returns.
C2_InheritedIsNearest ==
    \A h \in Headers(heap) :
        Attached(heap, h) =>
            LET r == inherited_opcodes(heap, h)
            IN  /\ r.exc = ""
                /\ \A i, j \in 1..Len(r.ret) : r.ret[i].name = r.ret[j].name => i = j
                /\ \A n \in QueryNames :
                       /\ dict_has(r.ret, n) <=> Nearest(heap, h, n) # None
                       /\ dict_has(r.ret, n) => <<dict_get(r.ret, n)>> = opcode(heap, h, n)

\* an attached header overrides the value its parent defines
C2_Witness ==
    \E h \in Headers(heap) :
        /\ Attached(heap, h)
        /\ h # SFZ
        /\ Defines(heap, h, "offset")
        /\ heap[h].parent # SFZ
        /\ Defines(heap, heap[h].parent, "offset")
        /\ dict_get(heap[h].opcodes, "offset").parsed_value
             # dict_get(heap[heap[h].parent].opcodes, "offset").parsed_value

\* ------------------------------------------------------------------ C3
\* C3: when a header has no parent, inherited_opcodes returns exactly that
\* header's own opcodes and does not raise.
C3_ParentlessOwnOpcodes ==
    \A h \in Headers(heap) :
        heap[h].parent = None =>
            inherited_opcodes(heap, h) = [exc |-> "", ret |-> heap[h].opcodes]

\* ------------------------------------------------------------------ C10
StrictlyBelow(H, d, h) == d # h /\ InPath(H, h, d)

\* a header from d upward, below h, defines name
DefinedBelow(H, d, h, name) ==
    \E i \in 1..Len(PathUp(H, d)) :
        /\ Defines(H, PathUp(H, d)[i], name)
        /\ StrictlyBelow(H, PathUp(H, d)[i], h) \/ PathUp(H, d)[i] = d
        /\ PathUp(H, d)[i] # h

SameShape(H1, H2) ==
    /\ Len(H1) = Len(H2)
    /\ \A g \in Headers(H1) :
          /\ H1[g].kind = H2[g].kind
          /\ H1[g].parent = H2[g].parent
          /\ H1[g].subheadings = H2[g].subheadings

Replaced(H1, H2, h, name) ==
    /\ dict_has(H2[h].opcodes, name)
    /\ dict_has(H1[h].opcodes, name) =>
          dict_get(H2[h].opcodes, name) # dict_get(H1[h].opcodes, name)

MutationIsolated(h) ==
    /\ SameShape(heap, heap')
    /\ \A g \in Headers(heap) : g # h => heap'[g].opcodes = heap[g].opcodes
    /\ \A n \in QueryNames :
          Replaced(heap, heap', h, n) =>
             /\ opcode(heap', h, n) = <<dict_get(heap'[h].opcodes, n)>>
             /\ \A d \in Headers(heap) :
                   StrictlyBelow(heap, d, h) =>
                      IF DefinedBelow(heap, d, h, n)
                      THEN opcode(heap', d, n) = opcode(heap, d, n)
                      ELSE opcode(heap', d, n) = <<dict_get(heap'[h].opcodes, n)>>

\* C10: after the opcode named N on header H is replaced (by resample, or
\* by append_opcode overwriting it), H.opcode(N) is the new opcode, every
\* descendant of H with no nearer definition of N resolves N to it, a
\* descendant that defines N keeps its own, and the own opcodes of every
\* other header and the shape of the tree are unchanged.
C10_MutationIsolation ==
    [][heap' # heap =>
          /\ \A h \in Headers(heap), sr \in Rates, tr \in Rates :
                heap' = resample(heap, h, sr, tr) => MutationIsolated(h)
          /\ \A h \in Headers(heap), n \in ApiNames, v \in ApiValues :
                heap' = append_opcode(heap, h, Opcode(n, v)) => MutationIsolated(h)]_vars

\* offset was replaced on a header (only resample stores an opcode without
\* a parent) that has an ancestor defining offset and a child inheriting it
C10_Witness ==
    \E h \in Headers(heap), d \in Headers(heap) :
        /\ Defines(heap, h, "offset")
        /\ dict_get(heap[h].opcodes, "offset").parent = None
        /\ heap[h].parent \notin {None, SFZ}
        /\ Defines(heap, heap[h].parent, "offset")
        /\ heap[d].parent = h
        /\ ~Defines(heap, d, "offset")
        /\ opcode(heap, d, "offset") = <<dict_get(heap[h].opcodes, "offset")>>

\* ------------------------------------------------------------------ C4
\* Global, Master, Group, Region from broadest to narrowest
Breadth(k) ==
    CASE k = "Global" -> 1 [] k = "Master" -> 2 [] k = "Group" -> 3 [] k = "Region" -> 4

Chain == {"Global", "Master", "Group", "Region"}

\* C4: may_contain of a header of the chain rejects its own variant and
\* every broader one, and Control, Effect, Midi and Curve reject every
\* candidate.
C4_RejectsSelfAndBroader ==
    \A h \in Headers(heap) \ {SFZ}, k \in HeaderKinds :
        /\ heap[h].kind \in Chain /\ k \in Chain /\ Breadth(k) <= Breadth(heap[h].kind)
              => ~may_contain(heap[h].kind, k)
        /\ heap[h].kind \notin Chain => ~may_contain(heap[h].kind, k)

\* ------------------------------------------------------------------ C5
\* C5: in a tree the builder has made, every parent header accepts each of
\* its children, and no Region has a Region below it.
C5_BuiltTreeContainment ==
    /\ \A h \in Headers(heap) :
          heap[h].parent \notin {None, SFZ} =>
             may_contain(heap[heap[h].parent].kind, heap[h].kind)
    /\ \A r \in Headers(heap), d \in Headers(heap) :
          heap[r].kind = "Region" /\ StrictlyBelow(heap, d, r) => heap[d].kind # "Region"

\* the builder closed a Region for a second Region after a header nested
\* in the first
C5_Witness ==
    \E r1 \in Headers(heap), c \in Headers(heap), r2 \in Headers(heap) :
        /\ heap[r1].kind = "Region" /\ heap[r2].kind = "Region"
        /\ r1 < c /\ c < r2
        /\ heap[c].parent = r1
        /\ heap[r2].parent = heap[r1].parent
        /\ stack = <<r2>>

\* ------------------------------------------------------------------ C9
\* the effective opcode set of a header, as name/value pairs
Effective(H, h) ==
    LET r == inherited_opcodes(H, h)
    IN  {<<r.ret[i].name, r.ret[i].parsed_value>> : i \in 1..Len(r.ret)}

SameNesting(H1, H2) ==
    /\ Len(H1) = Len(H2)
    /\ \A g \in Headers(H1) :
          /\ H1[g].kind = H2[g].kind
          /\ H1[g].parent = H2[g].parent
          /\ H1[g].subheadings = H2[g].subheadings

RoundTrip(H, text) ==
    LET B == build(parse(tokens(text)))
    IN  /\ B.exc = ""
        /\ SameNesting(B.heap, H)
        /\ \A g \in Headers(H) : Effective(B.heap, g) = Effective(H, g)

\* C9: what write emits for a built tree, fed back through the builder,
\* yields a tree with the same header nesting and the same effective opcode
\* set at every header, for all header variants including Curve.
C9_RoundTrip == call.op = "write" => RoundTrip(heap, stream)

\* ------------------------------------------------------------- C6, C7
\* the effective value of name at region r, read off the path of r
HasEffective(r, n) == Nearest(heap, r, n) # None

EffectiveValue(r, n) == int(dict_get(heap[Nearest(heap, r, n)].opcodes, n).parsed_value)

Queried == call.op = "is_triggerd_by"

KeyRange6064(r) ==
    /\ Attached(heap, r)
    /\ HasEffective(r, "lokey") /\ EffectiveValue(r, "lokey") = 60
    /\ HasEffective(r, "hikey") /\ EffectiveValue(r, "hikey") = 64

OnlyLokey(k) == <<k, NoneArg, NoneArg, NoneArg>>

\* C6 as claimed: a Region with effective lokey=60 and hikey=64 is triggered
\* by a query giving only lokey=62 and not by one giving only lokey=70; a
\* query key outside [lokey, hikey] is not a match.
C6_AsClaimed ==
    (Queried /\ KeyRange6064(call.self)) =>
        /\ call.args = OnlyLokey(62) => (call.exc = "" /\ call.ret = "True")
        /\ call.args = OnlyLokey(70) => (call.exc = "" /\ call.ret = "False")
        /\ call.args = OnlyLokey(58) => (call.exc = "" /\ call.ret = "False")

\* C6 amended: such a Region is triggered by a query giving only lokey=62
\* and also by one giving only lokey=70, a lone lokey being compared with
\* the region's lokey alone; a query giving the key k as both lokey and
\* hikey is a match exactly when 60 <= k <= 64.
C6_KeyRange ==
    (Queried /\ KeyRange6064(call.self)) =>
        /\ call.args = OnlyLokey(62) => (call.exc = "" /\ call.ret = "True")
        /\ call.args = OnlyLokey(70) => (call.exc = "" /\ call.ret = "True")
        /\ call.args = OnlyLokey(58) => (call.exc = "" /\ call.ret = "False")
        /\ \A k \in QueryLokey \cap QueryHikey :
              (k # NoneArg /\ call.args = <<k, k, NoneArg, NoneArg>>) =>
                  /\ call.exc = ""
                  /\ call.ret = "True" <=> (60 <= k /\ k <= 64)

\* a Region that inherits lokey=60 and hikey=64 from its Group was asked
\* for lokey=70 alone and answered True
C6_Witness ==
    /\ Queried
    /\ KeyRange6064(call.self)
    /\ heap[call.self].opcodes = <<>>
    /\ heap[heap[call.self].parent].kind = "Group"
    /\ call.args = OnlyLokey(70)
    /\ call.ret = "True"

\* some given criterion is outside the bound the region has for it
Fails(r, a) ==
    \/ a[1] # NoneArg /\ HasEffective(r, "lokey") /\ EffectiveValue(r, "lokey") > a[1]
    \/ a[2] # NoneArg /\ HasEffective(r, "hikey") /\ EffectiveValue(r, "hikey") < a[2]
    \/ a[3] # NoneArg /\ HasEffective(r, "lovel") /\ EffectiveValue(r, "lovel") > a[3]
    \/ a[4] # NoneArg /\ HasEffective(r, "hivel") /\ EffectiveValue(r, "hivel") < a[4]

\* C7: is_triggerd_by raises exactly when all four criteria are absent;
\* otherwise it returns False exactly when a given criterion lies outside
\* the region's effective bound for it, and True otherwise.
C7_TriggerExact ==
    Queried =>
        /\ call.exc # "" <=> call.args = <<NoneArg, NoneArg, NoneArg, NoneArg>>
        /\ call.exc = "" =>
              /\ call.ret \in {"True", "False"}
              /\ call.ret = "False" <=> Fails(call.self, call.args)

\* ------------------------------------------------------------------ C8
\* the place of a name in the table; a name outside it comes after all
TableRank(name) ==
    LET P == {i \in 1..Len(OPCODE_SORT_ORDER) : OPCODE_SORT_ORDER[i] = name}
    IN  IF P = {} THEN Len(OPCODE_SORT_ORDER) + 1
        ELSE CHOOSE i \in P : \A j \in P : i <= j

\* the elements of a list of names (with their items) that have rank r
RECURSIVE OfRank(_, _, _)
OfRank(items, names, r) ==
    IF items = <<>> THEN <<>>
    ELSE (IF TableRank(Head(names)) = r THEN <<Head(items)>> ELSE <<>>)
         \o OfRank(Tail(items), Tail(names), r)

Ordered(items, names) ==
    /\ \A i, j \in 1..Len(names) : i < j => TableRank(names[i]) <= TableRank(names[j])
    /\ \A i, j \in 1..Len(names) :
          (TableRank(names[i]) <= Len(OPCODE_SORT_ORDER)
             /\ TableRank(names[j]) > Len(OPCODE_SORT_ORDER)) => i < j

StablePermutation(out, outNames, in, inNames) ==
    /\ Len(out) = Len(in)
    /\ \A r \in 1..(Len(OPCODE_SORT_ORDER) + 1) :
          OfRank(out, outNames, r) = OfRank(in, inNames, r)

\* C8: name_sorted / opcode_sorted return a permutation of the input with
\* the names of the table first, in table order, the other names after
\* them, and equal ranks in input order; [volume, lokey, unknownop, hikey]
\* gives [lokey, hikey, volume, unknownop].
C8_SortedStable ==
    /\ call.op = "opcode_sorted" =>
          /\ Ordered(output, NamesOf(output))
          /\ StablePermutation(output, NamesOf(output), input, NamesOf(input))
    /\ call.op = "name_sorted" =>
          /\ Ordered(output, output)
          /\ StablePermutation(output, output, NamesOf(input), NamesOf(input))
          /\ NamesOf(input) = <<"volume", "lokey", "unknownop", "hikey">>
                => output = <<"lokey", "hikey", "volume", "unknownop">>

\* name_sorted has sorted the list of the example
C8_Witness ==
    /\ call.op = "name_sorted"
    /\ NamesOf(input) = <<"volume", "lokey", "unknownop", "hikey">>
    /\ output = <<"lokey", "hikey", "volume", "unknownop">>

\* ------------------------------------------------------------------ C11
\* C11: for an opcode name amp_velcurve_<digits> that is not a key of
\* OPCODES, Opcode.definition is the record OPCODES holds under
\* amp_velcurve_N.
C11_VelcurveDefinition ==
    (/\ call.op = "definition"
     /\ re_match(<<"a", "m", "p", "_", "v", "e", "l", "c", "u", "r", "v", "e", "_">>, <<>>, input)
     /\ input \notin DOMAIN OPCODES)
    => output.ret = PyDict(OPCODES[<<"a", "m", "p", "_", "v", "e", "l", "c", "u", "r", "v", "e", "_", "N">>])

\* ------------------------------------------------------------------ C14
\* the number of cc<digits> fragments of a name, left to right
RECURSIVE CcFragmentsFrom(_, _)
CcFragmentsFrom(s, i) ==
    IF i > Len(s) THEN 0
    ELSE IF match_at(s, i, <<"c", "c">>, <<>>) # 0
         THEN 1 + CcFragmentsFrom(s, match_at(s, i, <<"c", "c">>, <<>>))
         ELSE CcFragmentsFrom(s, i + 1)

CcFragments(s) == CcFragmentsFrom(s, 1)

\* a name with every run of digits and every N or X marker made the same
RECURSIVE FamilyFrom(_, _)
FamilyFrom(s, i) ==
    IF i > Len(s) THEN <<>>
    ELSE IF s[i] \in Digits THEN <<"#">> \o FamilyFrom(s, digits_end(s, i))
    ELSE IF s[i] \in {"N", "X"} THEN <<"#">> \o FamilyFrom(s, i + 1)
    ELSE <<s[i]>> \o FamilyFrom(s, i + 1)

Family(s) == FamilyFrom(s, 1)

\* C14: name resolution ends: every recursive call of _get_opcode_def is on
\* a name with strictly fewer cc<digits> fragments than its caller's, so
\* there are at most one more calls than the name has such fragments; what
\* is returned comes from a key of OPCODES that generalises the name, and
\* otherwise it is None, with a warning logged and nothing raised.
C14_ResolutionBounded ==
    (call.op = "definition" /\ input \notin DOMAIN OPCODES) =>
        /\ output.calls[1] = input
        /\ \A i \in 1..(Len(output.calls) - 1) :
              CcFragments(output.calls[i + 1]) < CcFragments(output.calls[i])
        /\ Len(output.calls) <= CcFragments(input) + 1
        /\ \/ /\ output.ret.type = "dict"
              /\ output.ret.dict.name \in DOMAIN OPCODES
              /\ output.ret.dict = OPCODES[output.ret.dict.name]
              /\ Family(output.ret.dict.name) = Family(input)
              /\ output.warnings = <<>>
           \/ /\ output.ret.type = "str"
              /\ output.ret.str \in DOMAIN OPCODES
              /\ re_match(<<"a", "m", "p", "_", "v", "e", "l", "c", "u", "r", "v", "e", "_">>, <<>>, input)
              /\ output.warnings = <<>>
           \/ /\ output.ret = PyNone
              /\ Len(output.warnings) = 1

C14_Witness ==
    /\ call.op = "definition"
    /\ input = <<"_", "o", "n", "c", "c", "1", "_", "c", "c", "2", "c", "c", "3">>
    /\ Len(output.calls) = 4
    /\ output.ret = PyNone
    /\ Len(output.warnings) = 1

\* ------------------------------------------------------------------ C12
\* the Region headers below h
RegionsBelow(H, h) == {d \in Headers(H) : H[d].kind = "Region" /\ StrictlyBelow(H, d, h)}

IndexIn(H, d) == CHOOSE i \in 1..Len(H[H[d].parent].subheadings) : H[H[d].parent].subheadings[i] = d

\* the way from h down to d, as the positions among the subheadings
RECURSIVE Trail(_, _, _)
Trail(H, d, h) == IF d = h THEN <<>> ELSE Append(Trail(H, H[d].parent, h), IndexIn(H, d))

\* a comes before b depth-first, a header before what is nested under it
RECURSIVE TrailBefore(_, _)
TrailBefore(a, b) ==
    IF b = <<>> THEN FALSE
    ELSE IF a = <<>> THEN TRUE
    ELSE IF Head(a) # Head(b) THEN Head(a) < Head(b)
    ELSE TrailBefore(Tail(a), Tail(b))

InPreOrder(H, h, out) ==
    /\ \A i \in 1..Len(out) : out[i] \in RegionsBelow(H, h)
    /\ \A i \in 1..Len(out), j \in 1..Len(out) :
          i < j => TrailBefore(Trail(H, out[i], h), Trail(H, out[j], h))

\* C12: a traversal h.regions() yields Region descendants of h only, in
\* depth-first pre-order and so none twice; when it ends it has yielded
\* every Region descendant of h; a second call yields the same sequence.
C12_RegionsPreOrder ==
    call.op = "regions" =>
        /\ InPreOrder(heap, call.self, output)
        /\ call.exc = "StopIteration" =>
              /\ \A d \in RegionsBelow(heap, call.self) : \E i \in 1..Len(output) : output[i] = d
              /\ stack = <<>>
              /\ call.args = <<2>> => output = input

\* a second traversal has ended; a Region was yielded before the Region
\* nested under it, and a Group below h was passed over
C12_Witness ==
    /\ call.op = "regions"
    /\ call.exc = "StopIteration"
    /\ call.args = <<2>>
    /\ Len(output) = 2
    /\ heap[output[2]].parent = output[1]
    /\ \E g \in Headers(heap) : heap[g].kind = "Group" /\ StrictlyBelow(heap, g, call.self)

\* ------------------------------------------------------------------ C13
\* the 'name=value' strings of the own opcodes of r
OwnOpstrs(H, r) == {Opcode_str(H[r].opcodes[i]) : i \in 1..Len(H[r].opcodes)}

\* the 'name=value' strings of the opcodes r has itself or inherits
EffectiveOpstrs(H, r) ==
    {Opcode_str(dict_get(H[Nearest(H, r, n)].opcodes, n)) :
        n \in {m \in OpstrsNames : Nearest(H, r, m) # None}}

\* C13: Region.uses_opstr(s) is True exactly when s is the 'name=value'
\* string of an opcode the Region defines or inherits from a containing
\* header (here for a Region whose kept opstrs are those of its own
\* opcodes as they are now).
C13_UsesOpstrEffective ==
    (/\ call.op = "uses_opstr"
     /\ heap[call.self].opstrs = <<OwnOpstrs(heap, call.self)>>)
    => (call.ret <=> call.args[1] \in EffectiveOpstrs(heap, call.self))

\* ------------------------------------------------------------------ C15
\* C15: whatever replacements of opcodes and reads came before, opstrs is
\* the set of the 'name=value' strings of the Region's opcodes as they are
\* now, and uses_opstr(s) says whether s is in that set.
C15_OpstrsNeverStale ==
    /\ call.op = "opstrs" => call.ret = OwnOpstrs(heap, call.self)
    /\ call.op = "uses_opstr" => (call.ret <=> call.args[1] \in OwnOpstrs(heap, call.self))

====
